---- MODULE Spec2Model ----
(***************************************************************************)
(* Model of the single-child-process launcher of teleop-record-replay      *)
(* (src/src/main.rs): the application state MyApp, the handlers            *)
(* spawn_process, kill_process and update, and the part of the operating   *)
(* system they talk to (the table of spawned terminal processes).          *)
(***************************************************************************)
EXTENDS Integers, Sequences, FiniteSets, TLC

VARIABLES
    config,         \* MyApp.config: Result<Arc<Config>, String>
    child_process,  \* MyApp.child_process: Option<(Child, ProcessType)>
    procs,          \* the OS: state of every process handle Command::spawn can return
    released,       \* history: how the application let go of each handle
    ignored,        \* history: a request-start was refused since the last spawn
    frame           \* history: what the most recent step did (inputs, OS calls, view)

vars == <<config, child_process, procs, released, ignored, frame>>

----------------------------------------------------------------------------
(* Bounds *)

\* Number of process handles the OS hands out in one run; once they are used
\* up Command::spawn reports an error.
MaxSpawns == 2

Pids == 1..MaxSpawns

----------------------------------------------------------------------------
(* Data model *)

\* enum ProcessType
ProcessType == {"Teleoperation", "Record", "Replay"}

\* The order in which update() asks the three launch buttons whether they
\* were clicked.
ButtonOrder == <<"Teleoperation", "Record", "Replay">>

\* Option<T>: None is the empty tuple, Some(v) the one-element tuple <<v>>.
\* Option<(Child, ProcessType)> holds the pair itself: <<pid, kind>>.
None == <<>>

Some(v) == <<v>>

\* Result<Arc<Config>, String>
ConfigErr == [ok |-> FALSE, error |-> "Failed to read config file"]

ConfigOk(c) == [ok |-> TRUE, value |-> c]

\* struct Commands: working_directory is a String that serde defaults to "",
\* the three commands are required strings.
CommandsValues(wd) ==
    [working_directory |-> wd,
     teleoperation |-> "teleop",
     record |-> "rec",
     replay |-> "play"]

\* struct AppConfig: both fields are Option<String>.
AppConfigValues(t, cp) == [terminal |-> t, conda_path |-> cp]

\* struct Config values a run starts from: every shape of the optional
\* fields (absent, empty, set) occurs in one of them.
ConfigValues ==
    { [app |-> AppConfigValues(None, None), commands |-> CommandsValues("")],
      [app |-> AppConfigValues(Some("xterm"), Some("")), commands |-> CommandsValues("/ws")],
      [app |-> AppConfigValues(None, Some("/conda")), commands |-> CommandsValues("")],
      [app |-> AppConfigValues(Some("xterm"), Some("/conda")), commands |-> CommandsValues("/ws")] }

\* Every shape of struct Config: each optional field absent, empty or set.
AllConfigValues ==
    { [app |-> AppConfigValues(t, cp), commands |-> CommandsValues(wd)] :
        t \in {None, Some("xterm")},
        cp \in {None, Some(""), Some("/conda")},
        wd \in {"", "/ws"} }

\* MyApp::load_config: reading or parsing fails, or yields a Config.
load_config == {ConfigErr} \cup { ConfigOk(c) : c \in ConfigValues }

----------------------------------------------------------------------------
(* The operating system *)

\* A handle is unborn (not yet handed out), alive, or gone: exited on its own
\* with status 0 or 1, or killed by a signal.
ProcStates == {"unborn", "alive", "exit0", "exit1", "killed"}

IsGone(st) == st \in {"exit0", "exit1", "killed"}

FreePids(ps) == { p \in Pids : ps[p].state = "unborn" }

MinOf(S) == CHOOSE m \in S : \A n \in S : m <= n

\* Command::new(terminal).arg("-e").arg(arg).spawn(): the pid of the new
\* process, or 0 for Err; ok is the OS's answer when a handle is available.
CommandSpawn(ps, ok) ==
    IF ok /\ FreePids(ps) # {} THEN MinOf(FreePids(ps)) ELSE 0

\* Mutant: Child::wait in place of Child::try_wait: the call does not return
\* while the process is alive.
BlockingWaitAnswers(st) ==
    IF st = "alive" THEN {} ELSE {"OkSome", "Err"}

\* Child::try_wait answers the OS can give for a handle in state st:
\* Ok(None) while alive; once gone Ok(Some(status)), or Err when the handle
\* was lost (the child is no longer waitable).
TryWaitAnswers(st) ==
    IF st = "alive" THEN {"OkNone"} ELSE {"OkSome", "Err"}

UnbornProc == [state |-> "unborn"]

\* What one step did: the view update() rendered, the button clicks it
\* consumed, and the OS calls it made, in order.
\*   queried   - handles Child::try_wait was called on, with answer the result
\*   signalled - [pid, ok] of every Child::kill call
\*   attempts  - [kind, pid, terminal, arg] of every Command::spawn call
\*               (pid = 0: the spawn failed)
EmptyFrame ==
    [op |-> "init", view |-> "none", clicked |-> {}, stop |-> FALSE,
     queried |-> <<>>, answer |-> "none", signalled |-> <<>>, attempts |-> <<>>]

----------------------------------------------------------------------------
(* MyApp *)

\* The application state together with the OS it acts on, as one value the
\* handlers transform.
Cur ==
    [config |-> config, child_process |-> child_process, procs |-> procs,
     released |-> released, ignored |-> ignored, frame |-> frame]

Commit(s) ==
    /\ config' = s.config
    /\ child_process' = s.child_process
    /\ procs' = s.procs
    /\ released' = s.released
    /\ ignored' = s.ignored
    /\ frame' = s.frame

\* MyApp::new: the configuration as loaded, no child process.
Init ==
    /\ config \in load_config
    /\ child_process = None
    /\ procs = [p \in Pids |-> UnbornProc]
    /\ released = [p \in Pids |-> "no"]
    /\ ignored = FALSE
    /\ frame = EmptyFrame

\* spawn_process, lines 98-103: the command string of the requested kind.
specific_command(cfg, process_type) ==
    CASE process_type = "Teleoperation" -> cfg.commands.teleoperation
      [] process_type = "Record" -> cfg.commands.record
      [] process_type = "Replay" -> cfg.commands.replay

\* Mutant: the directory change is prefixed without testing whether a working
\* directory is configured.
full_command_always_cd(cfg, process_type) ==
    "cd " \o cfg.commands.working_directory \o " && "
          \o specific_command(cfg, process_type)

\* spawn_process, lines 105-110.
full_command(cfg, process_type) ==
    IF cfg.commands.working_directory # ""
    THEN "cd " \o cfg.commands.working_directory \o " && "
             \o specific_command(cfg, process_type)
    ELSE specific_command(cfg, process_type)

\* spawn_process, lines 114-122.
conda_init_command(cfg) ==
    IF cfg.app.conda_path # None
    THEN IF cfg.app.conda_path[1] # ""
         THEN "source " \o cfg.app.conda_path[1] \o "/etc/profile.d/conda.sh && "
         ELSE ""
    ELSE ""

\* spawn_process, line 124.
command_with_conda_init(cfg, process_type) ==
    conda_init_command(cfg) \o full_command(cfg, process_type)

\* spawn_process, lines 132-136: the configured terminal or "konsole".
terminal(cfg) ==
    IF cfg.app.terminal # None THEN cfg.app.terminal[1] ELSE "konsole"

\* Mutant: the notice is chained to the command with "&&" and the subshell
\* is left out.
final_shell_command_notice_on_success(cfg, process_type) ==
    command_with_conda_init(cfg, process_type)
        \o " && echo -e \"\\n\\n[INFO] Command finished. Press Enter to close this terminal.\"; read"

\* spawn_process, lines 143-146.
final_shell_command(cfg, process_type) ==
    "(" \o command_with_conda_init(cfg, process_type)
        \o "); echo -e \"\\n\\n[INFO] Command finished. Press Enter to close this terminal.\"; read"

\* spawn_process, line 150: the argument after "-e".
terminal_arg(cfg, process_type) ==
    "bash -ic '" \o final_shell_command(cfg, process_type) \o "'"

\* spawn_process, lines 96-162: past the guard.  One Command::spawn call;
\* on Ok the new handle is tracked with the requested kind, on Err nothing
\* changes.  ok is what the OS answers to the spawn.
spawn_process_body(s, process_type, ok) ==
    LET cfg == s.config.value
        child == CommandSpawn(s.procs, ok)
        attempt == [kind |-> process_type, pid |-> child,
                    terminal |-> terminal(cfg),
                    arg |-> terminal_arg(cfg, process_type)]
        tried == [s EXCEPT !.frame.attempts = Append(@, attempt)]
    IN  IF child # 0
        THEN [tried EXCEPT
                 !.procs[child] = [state |-> "alive"],
                 !.ignored = FALSE,
                 !.child_process = <<child, process_type>>]
        ELSE tried

\* Mutant: the guard forgets the tracked process and only checks the
\* configuration.
spawn_process_unguarded(s, process_type, ok) ==
    IF ~s.config.ok THEN s ELSE spawn_process_body(s, process_type, ok)

\* Mutant: the guard refuses a request only for the kind already tracked.
spawn_process_same_kind_only(s, process_type, ok) ==
    IF (s.child_process # None /\ s.child_process[2] = process_type) \/ ~s.config.ok
    THEN [s EXCEPT !.ignored = @ \/ s.child_process # None]
    ELSE spawn_process_body(s, process_type, ok)

\* Mutant: the new handle is stored with the kind of the first button
\* instead of the requested kind.
spawn_process_wrong_kind(s, process_type, ok) ==
    IF s.child_process # None \/ ~s.config.ok
    THEN [s EXCEPT !.ignored = @ \/ s.child_process # None]
    ELSE LET r == spawn_process_body(s, process_type, ok)
         IN  IF r.child_process # None
             THEN [r EXCEPT !.child_process[2] = ButtonOrder[1]]
             ELSE r

\* Mutant: a failed spawn is tried a second time.
spawn_process_retry(s, process_type, ok) ==
    IF s.child_process # None \/ ~s.config.ok
    THEN [s EXCEPT !.ignored = @ \/ s.child_process # None]
    ELSE LET r == spawn_process_body(s, process_type, ok)
         IN  IF r.child_process = None
             THEN spawn_process_body(r, process_type, ok)
             ELSE r

\* Mutant: the spawned handle is dropped instead of being stored.
spawn_process_never_tracks(s, process_type, ok) ==
    IF s.child_process # None \/ ~s.config.ok
    THEN [s EXCEPT !.ignored = @ \/ s.child_process # None]
    ELSE [spawn_process_body(s, process_type, ok) EXCEPT !.child_process = None]

\* MyApp::spawn_process(process_type): a no-op while a process is tracked or
\* when the configuration failed to load.
spawn_process(s, process_type, ok) ==
    IF s.child_process # None \/ ~s.config.ok
    THEN [s EXCEPT !.ignored = @ \/ s.child_process # None]
    ELSE spawn_process_body(s, process_type, ok)

\* Child::kill on handle pid: with ok the OS delivers the signal and an alive
\* process dies; otherwise the process is left as it is.
ChildKill(ps, pid, ok) ==
    IF ok /\ ps[pid].state = "alive"
    THEN [ps EXCEPT ![pid].state = "killed"]
    ELSE ps

\* Mutant: the handle is taken out and dropped, the signal is never sent.
kill_process_without_signal(s, ok) ==
    IF s.child_process # None
    THEN [s EXCEPT !.child_process = None,
                   !.released[s.child_process[1]] = "dropped"]
    ELSE s

\* Mutant: the handle is put back when the kill fails.
kill_process_keeps_on_error(s, ok) ==
    IF s.child_process # None
    THEN LET pid == s.child_process[1]
         IN  [s EXCEPT
                 !.child_process = IF ok THEN None ELSE @,
                 !.procs = ChildKill(@, pid, ok),
                 !.released[pid] = IF ok THEN "kill_ok" ELSE @,
                 !.frame.signalled = Append(@, [pid |-> pid, ok |-> ok])]
    ELSE s

\* MyApp::kill_process; ok is what the OS answers to the signal.
kill_process(s, ok) ==
    IF s.child_process # None
    THEN LET pid == s.child_process[1]
         IN  [s EXCEPT
                 !.child_process = None,
                 !.procs = ChildKill(@, pid, ok),
                 !.released[pid] = IF ok THEN "kill_ok" ELSE "kill_err",
                 !.frame.signalled = Append(@, [pid |-> pid, ok |-> ok])]
    ELSE s

\* The inputs one call of update() consumes: the answer of Child::try_wait,
\* whether the Stop button reports a click and what the OS answers to the
\* kill, which launch buttons report a click and what the OS answers to each
\* spawn.  Inputs the call does not read are fixed.
NoInput ==
    [answer |-> "none", stop |-> FALSE, killOk |-> FALSE, clicked |-> {},
     spawnOk |-> [k \in ProcessType |-> FALSE]]

UpdateInputs(s) ==
    IF ~s.config.ok THEN {NoInput}
    ELSE IF s.child_process # None
    THEN { i \in { [NoInput EXCEPT !.answer = a, !.stop = st, !.killOk = ko] :
                     a \in TryWaitAnswers(s.procs[s.child_process[1]].state),
                     st \in BOOLEAN, ko \in BOOLEAN } :
             /\ i.stop => i.answer = "OkNone"
             /\ i.killOk => i.stop }
    ELSE { i \in { [NoInput EXCEPT !.clicked = c, !.spawnOk = so] :
                     c \in SUBSET ProcessType, so \in [ProcessType -> BOOLEAN] } :
             \A k \in ProcessType \ i.clicked : ~i.spawnOk[k] }

\* Mutant: the exit status is inspected and a process that exited with a
\* non-zero status stays tracked.
update_running_inspects_status(f, in) ==
    LET pid == f.child_process[1]
        q == [f EXCEPT !.frame.queried = Append(@, pid),
                       !.frame.answer = in.answer]
    IN  CASE in.answer = "OkSome" ->
               IF f.procs[pid].state = "exit0"
               THEN [q EXCEPT !.child_process = None, !.released[pid] = "exit"]
               ELSE q
          [] in.answer = "OkNone" ->
               LET r == [q EXCEPT !.frame.view = "running",
                                  !.frame.stop = in.stop]
               IN  IF in.stop THEN kill_process(r, in.killOk) ELSE r
          [] in.answer = "Err" ->
               [q EXCEPT !.child_process = None, !.released[pid] = "error"]

\* Mutant: a liveness error is only logged, the process stays tracked.
update_running_keeps_on_error(f, in) ==
    LET pid == f.child_process[1]
        q == [f EXCEPT !.frame.queried = Append(@, pid),
                       !.frame.answer = in.answer]
    IN  CASE in.answer = "OkSome" ->
               [q EXCEPT !.child_process = None, !.released[pid] = "exit"]
          [] in.answer = "OkNone" ->
               LET r == [q EXCEPT !.frame.view = "running",
                                  !.frame.stop = in.stop]
               IN  IF in.stop THEN kill_process(r, in.killOk) ELSE r
          [] in.answer = "Err" -> q

\* Mutant: a process found alive is killed whether or not Stop was clicked.
update_running_auto_kill(f, in) ==
    LET pid == f.child_process[1]
        q == [f EXCEPT !.frame.queried = Append(@, pid),
                       !.frame.answer = in.answer]
    IN  CASE in.answer = "OkSome" ->
               [q EXCEPT !.child_process = None, !.released[pid] = "exit"]
          [] in.answer = "OkNone" ->
               kill_process([q EXCEPT !.frame.view = "running",
                                      !.frame.stop = in.stop], TRUE)
          [] in.answer = "Err" ->
               [q EXCEPT !.child_process = None, !.released[pid] = "error"]

\* Mutant: a process that has exited is started again in the same tick.
update_running_restarts_on_exit(f, in) ==
    LET pid == f.child_process[1]
        q == [f EXCEPT !.frame.queried = Append(@, pid),
                       !.frame.answer = in.answer]
    IN  CASE in.answer = "OkSome" ->
               spawn_process([q EXCEPT !.child_process = None,
                                       !.released[pid] = "exit"],
                             f.child_process[2], TRUE)
          [] in.answer = "OkNone" ->
               LET r == [q EXCEPT !.frame.view = "running",
                                  !.frame.stop = in.stop]
               IN  IF in.stop THEN kill_process(r, in.killOk) ELSE r
          [] in.answer = "Err" ->
               [q EXCEPT !.child_process = None, !.released[pid] = "error"]

\* update, lines 190-207: a process is tracked.  Its liveness is queried
\* once; while it is alive the running view with the Stop button is shown.
update_running(f, in) ==
    LET pid == f.child_process[1]
        q == [f EXCEPT !.frame.queried = Append(@, pid),
                       !.frame.answer = in.answer]
    IN  CASE in.answer = "OkSome" ->
               [q EXCEPT !.child_process = None, !.released[pid] = "exit"]
          [] in.answer = "OkNone" ->
               LET r == [q EXCEPT !.frame.view = "running",
                                  !.frame.stop = in.stop]
               IN  IF in.stop THEN kill_process(r, in.killOk) ELSE r
          [] in.answer = "Err" ->
               [q EXCEPT !.child_process = None, !.released[pid] = "error"]

\* Mutant: the first launch button counts as clicked on every tick.
update_idle_first_button_always_clicked(f, in) ==
    LET v == [f EXCEPT !.frame.view = "idle", !.frame.clicked = in.clicked]
        a == spawn_process(v, ButtonOrder[1], TRUE)
        b == IF ButtonOrder[2] \in in.clicked
             THEN spawn_process(a, ButtonOrder[2], in.spawnOk[ButtonOrder[2]])
             ELSE a
    IN  IF ButtonOrder[3] \in in.clicked
        THEN spawn_process(b, ButtonOrder[3], in.spawnOk[ButtonOrder[3]])
        ELSE b

\* update, lines 208-248: nothing is tracked.  The three launch buttons are
\* shown and asked in turn whether they were clicked.
update_idle(f, in) ==
    LET v == [f EXCEPT !.frame.view = "idle", !.frame.clicked = in.clicked]
        a == IF ButtonOrder[1] \in in.clicked
             THEN spawn_process(v, ButtonOrder[1], in.spawnOk[ButtonOrder[1]])
             ELSE v
        b == IF ButtonOrder[2] \in in.clicked
             THEN spawn_process(a, ButtonOrder[2], in.spawnOk[ButtonOrder[2]])
             ELSE a
    IN  IF ButtonOrder[3] \in in.clicked
        THEN spawn_process(b, ButtonOrder[3], in.spawnOk[ButtonOrder[3]])
        ELSE b

\* Mutant: the early return on a failed configuration load is missing.
update_without_error_return(s, in) ==
    LET f == [s EXCEPT !.frame = [EmptyFrame EXCEPT !.op = "update"]]
    IN  IF f.child_process # None
        THEN update_running(f, in)
        ELSE update_idle(f, in)

\* <MyApp as eframe::App>::update, one refresh tick.
update(s, in) ==
    LET f == [s EXCEPT !.frame = [EmptyFrame EXCEPT !.op = "update"]]
    IN  IF ~f.config.ok
        THEN [f EXCEPT !.frame.view = "error"]
        ELSE IF f.child_process # None
             THEN update_running(f, in)
             ELSE update_idle(f, in)

----------------------------------------------------------------------------
(* The shell the terminal runs: bash -ic '<script>' *)

\* The script inside the single quotes of the argument "bash -ic '...'".
Script(arg) == SubSeq(arg, 11, Len(arg) - 1)

IsShellArg(arg) ==
    /\ Len(arg) >= 11
    /\ SubSeq(arg, 1, 10) = "bash -ic '"
    /\ SubSeq(arg, Len(arg), Len(arg)) = "'"

ShellOperators == {"(", ")", ";", "&&"}

RECURSIVE TrimRight(_)
TrimRight(w) ==
    IF Len(w) > 0 /\ SubSeq(w, Len(w), Len(w)) = " "
    THEN TrimRight(SubSeq(w, 1, Len(w) - 1))
    ELSE w

RECURSIVE TrimLeft(_)
TrimLeft(w) ==
    IF Len(w) > 0 /\ SubSeq(w, 1, 1) = " "
    THEN TrimLeft(SubSeq(w, 2, Len(w)))
    ELSE w

Trim(w) == TrimLeft(TrimRight(w))

\* The tokens so far with the word w closed.
Flush(toks, w) ==
    IF Trim(w) = "" THEN toks ELSE Append(toks, Trim(w))

\* The positions of the double quotes of a script.
QuotePositions(s) == { j \in 1..Len(s) : SubSeq(s, j, j) = "\"" }

\* The operator that starts at position i, "" if none does; inside double
\* quotes (an odd number of quotes before i) everything is plain text.
OperatorAt(s, quotes, i) ==
    IF Cardinality({ j \in quotes : j < i }) % 2 = 1 THEN ""
    ELSE IF SubSeq(s, i, i) \in {"(", ")", ";"} THEN SubSeq(s, i, i)
    ELSE IF i < Len(s) /\ SubSeq(s, i, i + 1) = "&&" THEN "&&"
    ELSE ""

OperatorPositions(s) ==
    LET quotes == QuotePositions(s)
    IN  { i \in 1..Len(s) : OperatorAt(s, quotes, i) # "" }

\* bash's split of a script into simple commands and the operators ( ) ;
\* and &&, read from position i on; ops are the positions of the operators.
RECURSIVE Tokens(_, _, _, _)
Tokens(s, ops, i, toks) ==
    LET ahead == { p \in ops : p >= i }
    IN  IF ahead = {} THEN Flush(toks, SubSeq(s, i, Len(s)))
        ELSE LET p  == MinOf(ahead)
                 op == OperatorAt(s, QuotePositions(s), p)
             IN  Tokens(s, ops, p + Len(op),
                        Append(Flush(toks, SubSeq(s, i, p - 1)), op))

Tokenize(s) == Tokens(s, OperatorPositions(s), 1, <<>>)

\* The positions of the simple commands among the tokens.
CommandPositions(toks) ==
    { i \in 1..Len(toks) : toks[i] \notin ShellOperators }

\* bash's execution of a list.  st = [pos, ok, ran]: the next token, the
\* exit status of the last command run, the positions of the commands run so
\* far; oc[i] tells whether the command at position i succeeds; skip tells
\* that the construct is passed over by a failed "&&".
\*   list     ::= and_or ( ";" and_or )*
\*   and_or   ::= command ( "&&" command )*
\*   command  ::= simple | "(" list ")"      (a subshell)
RECURSIVE RunList(_, _, _, _), RunListRest(_, _, _, _)
RECURSIVE RunAndOr(_, _, _, _), RunAndOrRest(_, _, _, _), RunCommand(_, _, _, _)

RunCommand(toks, st, oc, skip) ==
    IF toks[st.pos] = "("
    THEN LET r == RunList(toks, [st EXCEPT !.pos = @ + 1], oc, skip)
         IN  [r EXCEPT !.pos = @ + 1]
    ELSE IF skip
         THEN [st EXCEPT !.pos = @ + 1]
         ELSE [pos |-> st.pos + 1, ok |-> oc[st.pos],
               ran |-> Append(st.ran, st.pos)]

RunAndOrRest(toks, st, oc, skip) ==
    IF st.pos <= Len(toks) /\ toks[st.pos] = "&&"
    THEN RunAndOrRest(toks,
             RunCommand(toks, [st EXCEPT !.pos = @ + 1], oc, skip \/ ~st.ok),
             oc, skip)
    ELSE st

RunAndOr(toks, st, oc, skip) ==
    RunAndOrRest(toks, RunCommand(toks, st, oc, skip), oc, skip)

RunListRest(toks, st, oc, skip) ==
    IF st.pos < Len(toks) /\ toks[st.pos] = ";" /\ toks[st.pos + 1] # ")"
    THEN RunListRest(toks,
             RunAndOr(toks, [st EXCEPT !.pos = @ + 1], oc, skip), oc, skip)
    ELSE st

RunList(toks, st, oc, skip) ==
    RunListRest(toks, RunAndOr(toks, st, oc, skip), oc, skip)

\* The positions of the commands bash runs, in the order it runs them.
Execute(toks, oc) ==
    RunList(toks, [pos |-> 1, ok |-> TRUE, ran |-> <<>>], oc, FALSE).ran

----------------------------------------------------------------------------
(* Actions *)

\* One refresh tick of the UI loop: eframe calls update().
Update ==
    \E in \in UpdateInputs(Cur) : Commit(update(Cur, in))

\* The environment: an alive terminal process exits on its own, with status
\* 0 or 1, whether or not the application still tracks it.
OsExit ==
    \E p \in Pids, st \in {"exit0", "exit1"} :
        /\ procs[p].state = "alive"
        /\ procs' = [procs EXCEPT ![p].state = st]
        /\ frame' = [EmptyFrame EXCEPT !.op = "os"]
        /\ UNCHANGED <<config, child_process, released, ignored>>

Next == Update \/ OsExit

Spec == Init /\ [][Next]_vars

\* The runs that exercise the construction of the command: the load yields
\* any shape of configuration, and only the application acts (the launch
\* buttons and the Stop button are clicked, spawns and kills succeed or
\* fail; no process exits on its own).
ResolveInit ==
    /\ config \in { ConfigOk(c) : c \in AllConfigValues }
    /\ child_process = None
    /\ procs = [p \in Pids |-> UnbornProc]
    /\ released = [p \in Pids |-> "no"]
    /\ ignored = FALSE
    /\ frame = EmptyFrame

ResolveSpec == ResolveInit /\ [][Update]_vars

\* The runs checked for progress start from a failed load or from the
\* configuration with every optional field set: the configuration only
\* supplies the strings handed to Command::new, and no branch of update,
\* kill_process or the guard of spawn_process reads them.
FairInit ==
    /\ Init
    /\ config.ok =>
          /\ config.value.app.terminal # None
          /\ config.value.app.conda_path \notin {None, Some("")}
          /\ config.value.commands.working_directory # ""

\* The UI loop keeps ticking: eframe calls update() again and again for the
\* lifetime of the application, so a tick that would change the state is not
\* postponed forever.
FairSpec == FairInit /\ [][Next]_vars /\ WF_vars(Update)

----------------------------------------------------------------------------
(* Properties *)

\* The handles the application holds: handed out by a spawn and not let go
\* (by an observed exit, a liveness error or a stop).
Held == { p \in Pids : procs[p].state # "unborn" /\ released[p] = "no" }

\* The handles child_process tracks.
Tracked == IF child_process = None THEN {} ELSE {child_process[1]}

AliveProcs == { p \in Pids : procs[p].state = "alive" }

\* C1 (state part): the application holds 0 or 1 process handle, and it is
\* the tracked one.
C1_OneTracked ==
    /\ Cardinality(Tracked) \in {0, 1}
    /\ Cardinality(Held) \in {0, 1}
    /\ Held = Tracked

\* C1 (step part): a tick in which no request-start is issued makes no spawn
\* attempt and tracks nothing new, also when a request-start was refused
\* earlier.
C1_NoSpawnWithoutRequest ==
    (frame'.op = "update" /\ frame'.clicked = {}) =>
        /\ frame'.attempts = <<>>
        /\ child_process' \in {None, child_process}
        /\ FreePids(procs') = FreePids(procs)

\* C1: in every reachable state 0 or 1 process is tracked, and a
\* request-start issued while a process is tracked is never queued: after the
\* tracked process is cleared the state stays Idle and nothing is spawned
\* until a new request-start is issued.
C1_AtMostOneTrackedNeverQueued ==
    []C1_OneTracked /\ [][C1_NoSpawnWithoutRequest]_vars

\* C1 witness: a request-start was refused while a process was tracked, that
\* process has been cleared, and a tick without a request left the state Idle.
C1_Witness ==
    /\ ignored
    /\ child_process = None
    /\ frame.op = "update" /\ frame.view = "idle" /\ frame.clicked = {}
    /\ \E p \in Pids : released[p] # "no"

\* The application state a handler call leaves, without the history.
AppState(s) == <<s.config, s.child_process, s.procs>>

\* C2: for every pair of kinds k1, k2, request-start(k2) while a process of
\* kind k1 is tracked leaves the tracked handle and kind unchanged and makes
\* no spawn attempt; in a tick where several launch buttons report a click,
\* the first successful spawn is the last attempt and stays the tracked one.
C2_RequestWhileTrackedIsNoOp ==
    /\ child_process # None =>
         \A k2 \in ProcessType, ok \in BOOLEAN :
            LET r == spawn_process(Cur, k2, ok)
            IN  /\ AppState(r) = AppState(Cur)
                /\ r.frame.attempts = frame.attempts
                /\ r.released = released
    /\ \A i \in 1..Len(frame.attempts) :
         frame.attempts[i].pid # 0 =>
            /\ i = Len(frame.attempts)
            /\ child_process = <<frame.attempts[i].pid, frame.attempts[i].kind>>

\* C2 witness: two launch buttons reported a click in one tick, the first
\* spawn succeeded and the second request met a tracked process.
C2_Witness ==
    /\ frame.view = "idle"
    /\ {"Teleoperation", "Record"} \subseteq frame.clicked
    /\ Len(frame.attempts) = 1
    /\ frame.attempts[1].pid # 0
    /\ child_process = <<frame.attempts[1].pid, "Teleoperation">>
    /\ ignored

\* C3 as stated: at most one terminal process spawned by the application is
\* alive at the OS level, also after a stop whose kill signal failed.
C3_AtMostOneAliveAtOsLevel == Cardinality(AliveProcs) <= 1

\* C3 amended: at most one spawned terminal process is tracked, and every
\* other spawned terminal process still alive at the OS level is one whose
\* request-stop kill signal failed.
C3_AliveUntrackedOnlyAfterFailedKill ==
    /\ Cardinality(AliveProcs \cap Tracked) <= 1
    /\ \A p \in AliveProcs \ Tracked : released[p] = "kill_err"
    /\ Cardinality(AliveProcs)
         <= 1 + Cardinality({ p \in Pids : released[p] = "kill_err" })

\* C3 witness: a stop whose kill failed left a terminal alive, and a second
\* terminal was spawned and is tracked and alive beside it.
C3_Witness ==
    /\ child_process # None
    /\ procs[child_process[1]].state = "alive"
    /\ \E p \in AliveProcs \ Tracked : released[p] = "kill_err"

\* The kinds whose launch button reported a click, in the order update()
\* asks the buttons.
ClickedSeq(c) == SelectSeq(ButtonOrder, LAMBDA k : k \in c)

AllFailed(attempts) == \A i \in 1..Len(attempts) : attempts[i].pid = 0

\* C4 (state part): in an Idle state with a loaded configuration,
\* request-start(k) with a spawn that succeeds tracks the handle the spawn
\* returned, with kind k, for every kind k.
C4_StartFromIdle ==
    (child_process = None /\ config.ok /\ FreePids(procs) # {}) =>
        \A k \in ProcessType :
            LET r == spawn_process(Cur, k, TRUE)
            IN  /\ r.child_process = <<CommandSpawn(procs, TRUE), k>>
                /\ r.procs[r.child_process[1]].state = "alive"
                /\ Len(r.frame.attempts) = Len(frame.attempts) + 1

\* C4 (step part): a tick whose spawn succeeds ends Running, tracking the
\* handle that spawn created (new, alive, held by nothing else) and the kind
\* of a button clicked in that tick.
C4_SpawnedIsTracked ==
    frame'.op = "update" =>
        \A i \in 1..Len(frame'.attempts) :
            LET a == frame'.attempts[i]
            IN  a.pid # 0 =>
                  /\ child_process = None /\ config.ok
                  /\ child_process' = <<a.pid, a.kind>>
                  /\ a.kind \in frame'.clicked
                  /\ procs[a.pid].state = "unborn"
                  /\ procs'[a.pid].state = "alive"
                  /\ Held' = {a.pid}

\* C4: for every kind k, request-start(k) in the Idle state with a loaded
\* configuration and a spawn that succeeds moves the state to Running,
\* tracking exactly the newly spawned handle together with kind k.
C4_StartTracksNewHandleAndKind ==
    []C4_StartFromIdle /\ [][C4_SpawnedIsTracked]_vars

\* C4 witness: Replay alone was requested in an Idle state, the spawn
\* succeeded, and the new handle is tracked as Replay.
C4_Witness ==
    /\ frame.view = "idle"
    /\ frame.clicked = {"Replay"}
    /\ Len(frame.attempts) = 1
    /\ frame.attempts[1].pid # 0
    /\ child_process = <<frame.attempts[1].pid, "Replay">>

\* C5 (step part): a tick makes one spawn attempt per request-start it
\* accepts: the attempts are the clicked kinds in button order, up to the
\* first one that succeeds.  When every attempt fails nothing is tracked and
\* the OS holds no new process; a tick without a click retries nothing, and a
\* click in an Idle state with a loaded configuration is always attempted.
C5_OneAttemptPerRequest ==
    frame'.op = "update" =>
        LET att == frame'.attempts
            req == ClickedSeq(frame'.clicked)
        IN  /\ Len(att) <= Len(req)
            /\ \A i \in 1..Len(att) : att[i].kind = req[i]
            /\ (Len(att) < Len(req)) => (att # <<>> /\ att[Len(att)].pid # 0)
            /\ (child_process = None /\ AllFailed(att)) =>
                  (child_process' = None /\ procs' = procs)
            /\ frame'.clicked = {} => att = <<>>

\* C5: when the spawn of request-start fails the state remains Idle with
\* nothing tracked, the application keeps running (the next tick is always
\* possible), the failed spawn is not retried, and a later request-start is
\* attempted afresh.
C5_SpawnFailureLeavesIdle ==
    [](ENABLED Update) /\ [][C5_OneAttemptPerRequest]_vars

\* C5 witness: two request-starts in one tick, the first spawn failed and
\* left the state Idle, the second was attempted afresh and failed too.
C5_Witness ==
    /\ frame.view = "idle"
    /\ frame.clicked = {"Teleoperation", "Replay"}
    /\ Len(frame.attempts) = 2
    /\ AllFailed(frame.attempts)
    /\ child_process = None
    /\ \A p \in Pids : procs[p].state = "unborn"

\* C6 (state part): with a configuration that failed to load nothing is ever
\* tracked or spawned, request-start is a no-op for every kind, and every tick
\* shows the load error.
C6_FailedConfigState ==
    ~config.ok =>
        /\ child_process = None
        /\ \A p \in Pids : procs[p].state = "unborn"
        /\ frame.attempts = <<>> /\ frame.queried = <<>> /\ frame.signalled = <<>>
        /\ frame.op = "update" => frame.view = "error"
        /\ \A k \in ProcessType, ok \in BOOLEAN :
              LET r == spawn_process(Cur, k, ok)
              IN  AppState(r) = AppState(Cur) /\ r.frame.attempts = <<>>

\* C6: a failed configuration load is permanent: the configuration never
\* changes, request-start is a no-op for every kind, no spawn attempt is ever
\* made, the state is Idle in every reachable state, and the UI shows the
\* load error and never a running state.
C6_ConfigFailureIsPermanent ==
    []C6_FailedConfigState /\ [][~config.ok => config' = config]_vars

\* C6 witness: the configuration failed to load and a tick has rendered the
\* error view.
C6_Witness ==
    /\ ~config.ok
    /\ frame.op = "update"
    /\ frame.view = "error"
    /\ child_process = None

\* C7: poll in the Running state queries the tracked handle once; if the OS
\* reports that the process has exited the state becomes Idle whatever the
\* exit status, and if it reports it alive (and no stop is requested in that
\* tick) the state stays Running with the same handle and kind.
C7_PollRunning ==
    [][ (frame'.op = "update" /\ child_process # None) =>
           /\ frame'.queried = <<child_process[1]>>
           /\ frame'.answer = "OkSome" =>
                 /\ IsGone(procs[child_process[1]].state)
                 /\ child_process' = None
                 /\ procs' = procs
           /\ procs[child_process[1]].state = "alive" =>
                 frame'.answer = "OkNone"
           /\ (frame'.answer = "OkNone" /\ ~frame'.stop) =>
                 /\ child_process' = child_process
                 /\ procs' = procs
                 /\ frame'.view = "running" ]_vars

\* C7 witness: the tracked process exited with a non-zero status, poll
\* observed the exit, and the state is Idle.
C7_Witness ==
    /\ frame.op = "update"
    /\ frame.answer = "OkSome"
    /\ procs[frame.queried[1]].state = "exit1"
    /\ released[frame.queried[1]] = "exit"
    /\ child_process = None

\* The input of a tick whose liveness check reports a normal exit.
ExitInput == [NoInput EXCEPT !.answer = "OkSome"]

\* C8: when the liveness check of poll returns an error, the tick leaves
\* exactly the state a normal exit would have left: Idle, nothing tracked,
\* the OS untouched, the same view; and the next tick is possible.
C8_LivenessErrorLikeExit ==
    /\ [](frame.answer = "Err" => (child_process = None /\ ENABLED Update))
    /\ [][ (frame'.op = "update" /\ frame'.answer = "Err") =>
              /\ child_process' = None
              /\ <<config', child_process', procs'>>
                    = AppState(update(Cur, ExitInput))
              /\ frame'.view = update(Cur, ExitInput).frame.view
              /\ frame'.signalled = <<>> /\ frame'.attempts = <<>> ]_vars

\* C8 witness: the liveness check of the tracked handle returned an error
\* and the state is Idle.
C8_Witness ==
    /\ frame.op = "update"
    /\ frame.answer = "Err"
    /\ released[frame.queried[1]] = "error"
    /\ child_process = None

\* C9: request-stop in the Running state sends exactly one termination
\* signal, to the tracked handle, and leaves the state Idle whether the signal
\* succeeded or failed; no tick sends a signal without a stop request; the
\* tick right after a stop renders the Idle view, queries nothing and sends no
\* second signal.
C9_StopAlwaysIdle ==
    [][ frame'.op = "update" =>
           /\ frame'.stop =>
                 /\ child_process # None
                 /\ Len(frame'.signalled) = 1
                 /\ frame'.signalled[1].pid = child_process[1]
                 /\ child_process' = None
           /\ ~frame'.stop => frame'.signalled = <<>>
           /\ frame.signalled # <<>> =>
                 /\ child_process = None
                 /\ frame'.view = "idle"
                 /\ frame'.queried = <<>>
                 /\ frame'.signalled = <<>> ]_vars

\* C9 witness: a stop whose kill signal failed: the process is still alive
\* and the state is Idle.
C9_Witness ==
    /\ frame.stop
    /\ Len(frame.signalled) = 1
    /\ ~frame.signalled[1].ok
    /\ procs[frame.signalled[1].pid].state = "alive"
    /\ child_process = None

\* The inputs of a tick that only polls: no button reports a click.
PollInputs(s) == { in \in UpdateInputs(s) : in.clicked = {} /\ ~in.stop }

\* C10 (state part): in every reachable state a second poll with the same
\* liveness answer leaves the state the first poll left, and a poll with
\* nothing tracked changes nothing and makes no OS call.
C10_PollTwice ==
    \A in \in PollInputs(Cur) :
        LET once == update(Cur, in)
        IN  /\ \A in2 \in PollInputs(once) :
                 (once.child_process # None => in2.answer = in.answer) =>
                    /\ AppState(update(once, in2)) = AppState(once)
                    /\ update(once, in2).released = once.released
            /\ child_process = None =>
                 /\ AppState(once) = AppState(Cur)
                 /\ once.frame.queried = <<>>
                 /\ once.frame.attempts = <<>>
                 /\ once.frame.signalled = <<>>

\* C10: poll is idempotent: with no process tracked any number of
\* consecutive polls leaves the state Idle and performs no OS query, spawn or
\* signal, and polling twice with an unchanged liveness answer yields the
\* state polling once yields.
C10_PollIdempotent ==
    /\ []C10_PollTwice
    /\ [][ (frame'.op = "update" /\ child_process = None /\ frame'.clicked = {}) =>
              /\ child_process' = None
              /\ procs' = procs
              /\ frame'.queried = <<>>
              /\ frame'.attempts = <<>>
              /\ frame'.signalled = <<>> ]_vars

\* C10 witness: polls after the poll that observed the exit: nothing is
\* tracked, no button was clicked, and the tick made no OS call.
C10_Witness ==
    /\ frame.op = "update" /\ frame.view = "idle" /\ frame.clicked = {}
    /\ frame.queried = <<>> /\ frame.attempts = <<>> /\ frame.signalled = <<>>
    /\ child_process = None
    /\ \E p \in Pids : released[p] = "exit"

\* C11: the application sends a termination signal only in a tick in which
\* Stop was clicked, a process dies by a signal only in such a tick, and a
\* tick that finds the tracked process alive without a stop request leaves it
\* tracked and alive: no number of ticks ends the Running state by itself.
C11_OnlyStopKills ==
    [][ /\ frame'.op = "update" =>
              /\ frame'.signalled # <<>> => frame'.stop
              /\ (child_process # None
                    /\ procs[child_process[1]].state = "alive"
                    /\ ~frame'.stop) =>
                    /\ child_process' = child_process
                    /\ procs' = procs
                    /\ frame'.view = "running"
        /\ \A p \in Pids :
              (procs[p].state # "killed" /\ procs'[p].state = "killed") =>
                 /\ frame'.op = "update" /\ frame'.stop
                 /\ child_process = <<p, child_process[2]>> ]_vars

\* C11 witness: a tick polled the tracked process, found it alive, no stop
\* was requested, and the state is still Running with the process alive.
C11_Witness ==
    /\ frame.op = "update" /\ frame.view = "running" /\ ~frame.stop
    /\ frame.answer = "OkNone"
    /\ child_process # None
    /\ frame.queried = <<child_process[1]>>
    /\ procs[child_process[1]].state = "alive"
    /\ frame.signalled = <<>>

\* C12: the initial state is Idle and no state is terminal: a tick is always
\* possible; with a loaded configuration every Running state has a tick that
\* leaves it Idle, and every Idle state has a tick that leaves it Running,
\* given a spawn that succeeds (the OS still has a handle to hand out).
C12_NoTerminalState ==
    /\ frame.op = "init" => child_process = None
    /\ ENABLED Update
    /\ (config.ok /\ child_process # None) =>
          \E in \in UpdateInputs(Cur) : update(Cur, in).child_process = None
    /\ (config.ok /\ child_process = None /\ FreePids(procs) # {}) =>
          \A k \in ProcessType :
             \E in \in UpdateInputs(Cur) :
                /\ in.clicked = {k}
                /\ update(Cur, in).child_process # None
                /\ update(Cur, in).child_process[2] = k

\* C12 witness: the machine has gone round the cycle: a first process was
\* tracked and cleared, and a second one is tracked now.
C12_Witness ==
    /\ config.ok
    /\ child_process # None
    /\ \E p \in Pids : p # child_process[1] /\ released[p] # "no"

\* The tracked process has exited at the OS level.
TrackedGone ==
    child_process # None /\ IsGone(procs[child_process[1]].state)

\* C13: under fair UI ticks, whenever the tracked OS process has exited the
\* state eventually becomes Idle, and the tick that clears the tracked
\* process after its exit consumes no user action (no click of any button).
C13_ExitEventuallyIdle ==
    /\ TrackedGone ~> (child_process = None)
    /\ [][ (TrackedGone /\ frame'.op = "update") =>
              /\ child_process' = None
              /\ frame'.clicked = {} /\ ~frame'.stop ]_vars

\* C13 witness: the tracked process exited on its own with status 0, no
\* button was clicked, and the next tick destroyed the tracked record.
C13_Witness ==
    /\ frame.op = "update" /\ frame.view = "none"
    /\ frame.answer = "OkSome"
    /\ frame.clicked = {} /\ ~frame.stop /\ frame.signalled = <<>>
    /\ procs[frame.queried[1]].state = "exit0"
    /\ child_process = None

\* The command string the configuration gives for a kind.
CommandOf(cfg, k) ==
    [Teleoperation |-> cfg.commands.teleoperation,
     Record |-> cfg.commands.record,
     Replay |-> cfg.commands.replay][k]

\* The clause that sources the environment-initialisation script under p.
SourcingClause(p) == "source " \o p \o "/etc/profile.d/conda.sh"

\* The resolved command as C14 states it.
ResolvedAsStated(cfg, k) ==
    LET d == cfg.commands.working_directory
        inDir == IF d = "" THEN CommandOf(cfg, k)
                 ELSE "cd " \o d \o " && " \o CommandOf(cfg, k)
    IN  IF cfg.app.conda_path = None \/ cfg.app.conda_path = Some("")
        THEN inDir
        ELSE SourcingClause(cfg.app.conda_path[1]) \o " && " \o inDir

\* C14: for every kind k and every configuration the resolved command is
\* built from the command string of k: command[k] alone when the working
\* directory is empty and the bootstrap path empty or absent, prefixed by
\* "cd d && " for a working directory d, and that further prefixed by the
\* sourcing clause for a bootstrap path p joined by "&&"; it is defined for
\* every kind and configuration, and it is the command every spawn attempt
\* hands to the terminal.
C14_ResolvedCommand ==
    /\ \A k \in ProcessType :
          command_with_conda_init(config.value, k) = ResolvedAsStated(config.value, k)
    /\ \A i \in 1..Len(frame.attempts) :
          frame.attempts[i].arg =
             "bash -ic '(" \o ResolvedAsStated(config.value, frame.attempts[i].kind)
                \o "); echo -e \"\\n\\n[INFO] Command finished. Press Enter to close this terminal.\"; read'"

\* C14 witness: Record was launched under a configuration with a working
\* directory and an empty bootstrap path; the command handed to the terminal
\* holds "cd /ws && rec" and no sourcing clause.
C14_Witness ==
    /\ config.value.commands.working_directory = "/ws"
    /\ config.value.app.conda_path = Some("")
    /\ Len(frame.attempts) = 1
    /\ frame.attempts[1].kind = "Record"
    /\ frame.attempts[1].pid # 0
    /\ command_with_conda_init(config.value, "Record") = "cd /ws && rec"

\* The tracked process is alive at the OS level.
TrackedAlive ==
    child_process # None /\ procs[child_process[1]].state = "alive"

\* C15: no tick blocks on the child: a tick is possible in every state;
\* while the tracked process is alive the liveness query returns and the tick
\* completes with the process still alive and tracked, and a tick with a stop
\* request completes whether the signal is delivered or not, in the second
\* case with the process still alive.
C15_TicksNeverBlock ==
    /\ ENABLED Update
    /\ TrackedAlive =>
          /\ \E in \in UpdateInputs(Cur) :
                /\ ~in.stop
                /\ update(Cur, in).child_process = child_process
                /\ update(Cur, in).procs = procs
          /\ \A ko \in BOOLEAN :
                \E in \in UpdateInputs(Cur) :
                   /\ in.stop /\ in.killOk = ko
                   /\ update(Cur, in).child_process = None
                   /\ ~ko => update(Cur, in).procs = procs

\* C15 witness: a tick polled a process that was alive, took the stop
\* request and completed, although the signalled process did not exit (the
\* signal failed, so it is alive still).
C15_Witness ==
    /\ frame.op = "update" /\ frame.view = "running"
    /\ frame.answer = "OkNone" /\ frame.stop
    /\ released[frame.queried[1]] = "kill_err"
    /\ procs[frame.queried[1]].state = "alive"
    /\ child_process = None

\* C16: on every refresh tick (with a loaded configuration) update polls
\* and then renders the running view or the idle view, also on the tick in
\* which the poll observes the exit of the tracked process or the liveness
\* check errors.
C16_EveryTickRendersAView ==
    (frame.op = "update" /\ config.ok) => frame.view \in {"running", "idle"}

\* The handles a step called Child::try_wait or Child::kill on.
Touched(f) ==
    { f.queried[i] : i \in 1..Len(f.queried) }
        \cup { f.signalled[i].pid : i \in 1..Len(f.signalled) }

\* The handles a step let go: signalled, or polled with an exit or an error
\* for answer.
LetGo(f) ==
    { f.signalled[i].pid : i \in 1..Len(f.signalled) }
        \cup (IF f.answer \in {"OkSome", "Err"}
              THEN { f.queried[i] : i \in 1..Len(f.queried) }
              ELSE {})

\* C17: no double-kill and no use-after-exit: a tick queries or signals only
\* the tracked handle, which was never let go before; a handle a tick lets go
\* (observed exit, liveness error, stop) is let go for good and is not touched
\* by the next tick; a tick sends at most one signal; and a stop is taken only
\* in a tick whose poll answered that the tracked process is alive.
C17_NoDoubleKillNoUseAfterExit ==
    [][ /\ frame'.op = "update" =>
              /\ \A p \in Touched(frame') :
                    /\ released[p] = "no"
                    /\ child_process # None /\ child_process[1] = p
                    /\ p \notin LetGo(frame)
              /\ \A p \in LetGo(frame') :
                    released'[p] # "no" /\ p \notin Tracked'
              /\ Len(frame'.signalled) <= 1 /\ Len(frame'.queried) <= 1
              /\ frame'.stop =>
                    /\ frame'.answer = "OkNone"
                    /\ Touched(frame') = {child_process[1]}
        /\ \A p \in Pids :
              released[p] # "no" =>
                 /\ released'[p] = released[p]
                 /\ p \notin Tracked' ]_vars

\* C17 witness: a handle was signalled by a stop whose kill failed, so its
\* process is alive still, and the following tick neither queried nor
\* signalled anything.
C17_Witness ==
    /\ frame.op = "update" /\ frame.view = "idle"
    /\ frame.queried = <<>> /\ frame.signalled = <<>>
    /\ \E p \in Pids : released[p] = "kill_err" /\ procs[p].state = "alive"

\* The handles a step's successful spawns created.
Spawned(f) ==
    { f.attempts[i].pid : i \in 1..Len(f.attempts) } \ {0}

\* C19: a tick changes the tracked process at most once: a tick that makes a
\* spawn attempt started Idle and polls and stops nothing, so the process it
\* spawns is first polled on a later tick; a tick that polls (and so any tick
\* that clears the tracked process or takes a stop) makes no spawn attempt
\* and ends with the same tracked process or none.
C19_OneChangePerTick ==
    [][ frame'.op = "update" =>
           /\ frame'.attempts # <<>> =>
                 /\ child_process = None
                 /\ frame'.queried = <<>> /\ frame'.signalled = <<>>
                 /\ ~frame'.stop
           /\ Spawned(frame') \cap Touched(frame') = {}
           /\ Cardinality(Spawned(frame')) <= 1
           /\ (frame'.queried # <<>> \/ frame'.stop \/ child_process # None) =>
                 /\ frame'.attempts = <<>>
                 /\ child_process' \in {None, child_process}
                 /\ FreePids(procs') = FreePids(procs)
           /\ \A p \in Spawned(frame) : p \in Touched(frame') =>
                 child_process = <<p, child_process[2]>> ]_vars

\* C19 witness: the tick after the spawning tick is the first to poll the
\* new process: it found it alive, a stop was taken, and nothing was spawned
\* in that tick.
C19_Witness ==
    /\ frame.op = "update" /\ frame.stop
    /\ Len(frame.queried) = 1 /\ frame.answer = "OkNone"
    /\ frame.attempts = <<>>
    /\ child_process = None
    /\ FreePids(procs) # {}

\* The elements of a set of numbers in ascending order.
RECURSIVE Ascending(_)
Ascending(S) ==
    IF S = {} THEN <<>> ELSE <<MinOf(S)>> \o Ascending(S \ {MinOf(S)})

\* The clauses the configuration puts before the kind command, in order.
ConfiguredClauses(cfg) ==
    (IF cfg.app.conda_path = None \/ cfg.app.conda_path = Some("")
     THEN <<>> ELSE <<SourcingClause(cfg.app.conda_path[1])>>)
    \o (IF cfg.commands.working_directory = ""
        THEN <<>> ELSE <<"cd " \o cfg.commands.working_directory>>)

CompletionNotice ==
    "echo -e \"\\n\\n[INFO] Command finished. Press Enter to close this terminal.\""

Ran(ran, p) == \E j \in 1..Len(ran) : ran[j] = p

\* The shell runs the script of a spawn attempt as C18 states, whatever the
\* commands' exit statuses.
GuardedAsStated(cfg, a) ==
    LET toks == Tokenize(Script(a.arg))
        cmds == Ascending(CommandPositions(toks))
        pre  == ConfiguredClauses(cfg)
        n    == Len(pre)
    IN  /\ IsShellArg(a.arg)
        /\ Len(cmds) = n + 3
        /\ \A j \in 1..n : toks[cmds[j]] = pre[j]
        /\ toks[cmds[n + 1]] = CommandOf(cfg, a.kind)
        /\ toks[cmds[n + 2]] = CompletionNotice
        /\ toks[cmds[n + 3]] = "read"
        /\ \A oc \in [CommandPositions(toks) -> BOOLEAN] :
              LET ran == Execute(toks, oc)
              IN  /\ \A j \in 1..(n + 1) :
                        Ran(ran, cmds[j]) <=> \A h \in 1..(j - 1) : oc[cmds[h]]
                  /\ \A x, y \in 1..Len(ran) : x < y => ran[x] < ran[y]
                  /\ Len(ran) >= 2
                  /\ ran[Len(ran) - 1] = cmds[n + 2]
                  /\ ran[Len(ran)] = cmds[n + 3]

\* C18: in the script every spawn attempt hands to the shell, the clauses
\* run in order with short-circuiting: each configured clause (sourcing, then
\* directory change) and then the kind command runs exactly when every clause
\* before it succeeded, and the completion notice followed by the key wait are
\* always the last two commands run, whether the kind command succeeded,
\* failed or was skipped.
C18_GuardedCommandShortCircuits ==
    \A i \in 1..Len(frame.attempts) :
        GuardedAsStated(config.value, frame.attempts[i])

\* C18 witness: Record was started under a configuration with a bootstrap
\* path and a working directory; when the sourcing succeeds and the directory
\* change fails, the shell runs sourcing, directory change, notice and key
\* wait, and skips the kind command.
C18_Witness ==
    /\ config.value.commands.working_directory = "/ws"
    /\ config.value.app.conda_path = Some("/conda")
    /\ Len(frame.attempts) = 1
    /\ frame.attempts[1].kind = "Record"
    /\ frame.attempts[1].pid # 0
    /\ LET toks == Tokenize(Script(frame.attempts[1].arg))
       IN  /\ toks = <<"(", "source /conda/etc/profile.d/conda.sh", "&&",
                       "cd /ws", "&&", "rec", ")", ";", CompletionNotice,
                       ";", "read">>
           /\ Execute(toks, [p \in CommandPositions(toks) |-> p # 4])
                 = <<2, 4, 9, 11>>

====
